---- MODULE Spec2Model ----
(***************************************************************************)
(* Model of app.py: a password-gated Streamlit page over a Feishu bitable. *)
(* One browser session runs the script; every run (render) re-reads the    *)
(* remote table through FeishuConnector and then serves at most one form   *)
(* or button.  The remote table is shared with other operators.            *)
(***************************************************************************)
EXTENDS Integers, Sequences, FiniteSets, TLC

VARIABLES
    authenticated,     \* st.session_state.authenticated
    login_attempt,     \* the last submitted login form, or NoLogin
    pc,                \* "idle": between script runs; "fetched": after line 191
    menu,              \* the sidebar radio of the current run
    remote,            \* the remote table: sequence of items {record_id, fields}
    remote_columns,    \* the column names the remote table currently has
    next_record_id,    \* the next identifier the remote store assigns
    token_response,    \* the remote answer to the latest token request
    token,             \* what the latest get_token returned
    list_response,     \* the remote answer to the latest list request
    existing_records,  \* what the latest get_records returned
    df_columns,        \* the columns derived at lines 188-191
    requests,          \* the HTTP requests the latest program step sent
    insert_fields,     \* the "fields" body of the latest insert request
    delete_target,     \* the record id of the latest delete_record call
    call_result,       \* how the latest add_record/delete_record ended
    message,           \* what the view showed for the latest step
    secrets_feishu,    \* "feishu" in st.secrets
    removed,           \* the rows removed from the remote table, and by whom
    last_write         \* who wrote to the remote table last

vars == <<authenticated, login_attempt, pc, menu, remote, remote_columns,
          next_record_id, token_response, token, list_response, existing_records, df_columns,
          requests, insert_fields, delete_target, call_result, message,
          secrets_feishu, removed, last_write>>

----------------------------------------------------------------------------
(* Bounds of the model *)

\* the remote table takes at most this many writes (rows added or removed)
MaxWrites == 2

----------------------------------------------------------------------------
(* Python values: text, numbers and None, with Python's truthiness *)

Text(s) == [kind |-> "text", text |-> s, num |-> 0]
Num(n) == [kind |-> "number", text |-> "", num |-> n]
PyNone == [kind |-> "none", text |-> "", num |-> 0]

\* bool(v) as used by "if not token" and by "if v" in the comprehension
Truthy(v) ==
    CASE v.kind = "text" -> v.text # ""
      [] v.kind = "number" -> v.num # 0
      [] OTHER -> FALSE

Range(s) == {s[i] : i \in 1..Len(s)}

Min(a, b) == IF a <= b THEN a ELSE b

\* a dict with no entries
EmptyDict == [k \in {} |-> PyNone]

\* column names and the sentinel are written in ASCII: supplier, contact,
\* device_type, unit_price (legacy), inquiry_unit_price, note, entry_time
ASSESSMENT_TAG == "supplier_assessment"

\* st.secrets.get("credentials", {"admin": "123456"})
valid_users == [u \in {"admin"} |-> "123456"]

\* params = {"page_size": 100}
page_size == 100

----------------------------------------------------------------------------
(* The remote service, as FeishuConnector sees it.  An HTTP exchange either *)
(* raises inside requests (status "network_error"), returns a body that is  *)
(* not JSON (response.json() raises), or returns a JSON body.               *)

RecId(n) == [kind |-> "text", text |-> "rec", num |-> n]

Item(n, fields) == [record_id |-> RecId(n), fields |-> fields]

RemoteIds(table) == {table[i].record_id : i \in 1..Len(table)}

PriceColumns == {"unit_price", "inquiry_unit_price"}

OtherColumns == {"supplier", "contact", "device_type", "note", "entry_time"}

\* answers of the token endpoint: only the last one carries a token
TokenResponses ==
    { [status |-> "network_error", has_token |-> FALSE, tenant_access_token |-> ""],
      [status |-> "not_json", has_token |-> FALSE, tenant_access_token |-> ""],
      [status |-> "json", has_token |-> FALSE, tenant_access_token |-> ""],
      [status |-> "json", has_token |-> TRUE, tenant_access_token |-> "t-1"] }

NoTokenResponse ==
    [status |-> "not_sent", has_token |-> FALSE, tenant_access_token |-> ""]

NotSent == [status |-> "not_sent", code |-> 0, items |-> <<>>, has_more |-> FALSE]

Failure(status, code) ==
    [status |-> status, code |-> code, items |-> <<>>, has_more |-> FALSE]

\* answers every endpoint can give instead of serving the request
FailureResponses ==
    { Failure("network_error", 0), Failure("not_json", 0), Failure("json", 1) }

\* the list endpoint serves one page of at most n items and says whether
\* more pages follow
ListPage(table, n) ==
    [status |-> "json", code |-> 0,
     items |-> SubSeq(table, 1, Min(n, Len(table))),
     has_more |-> Len(table) > n]

ListResponses(table, n) == {ListPage(table, n)} \cup FailureResponses

Accepted == [status |-> "json", code |-> 0, items |-> <<>>, has_more |-> FALSE]

\* the insert endpoint rejects a field name the table does not have
InsertResponses(columns, fields) ==
    IF DOMAIN fields \subseteq columns
    THEN {Accepted} \cup FailureResponses
    ELSE FailureResponses

\* the delete endpoint rejects an identifier the table does not hold
DeleteResponses(table, record_id) ==
    IF record_id \in RemoteIds(table)
    THEN {Accepted} \cup FailureResponses
    ELSE FailureResponses

RemoteAppend(table, n, fields) == Append(table, Item(n, fields))

RemoteRemove(table, record_id) ==
    SelectSeq(table, LAMBDA it : it.record_id # record_id)

----------------------------------------------------------------------------
(* FeishuConnector *)

\* get_token: the bare except turns every failure into None, and .get
\* returns None for a body without the token field
get_token(response) ==
    IF response.status # "json" THEN PyNone
    ELSE IF response.has_token THEN Text(response.tenant_access_token)
    ELSE PyNone

\* row = item["fields"]; row["_record_id"] = item["record_id"]
Row(item) == ("_record_id" :> item.record_id) @@ item.fields

\* get_records with the rows inserted at the front of clean_data
clean_data_newest_first(items) ==
    [i \in 1..Len(items) |-> Row(items[Len(items) + 1 - i])]

\* the for loop of get_records: one row per item, appended in item order
clean_data(items) == [i \in 1..Len(items) |-> Row(items[i])]

\* get_records after the token check: the list answer decides
get_records(tok, response) ==
    IF ~Truthy(tok) THEN <<>>
    ELSE IF response.status # "json" THEN <<>>
    ELSE IF response.code = 0 THEN clean_data(response.items)
    ELSE <<>>

\* the requests get_records sends
get_records_requests(tok) ==
    IF ~Truthy(tok) THEN <<"token">> ELSE <<"token", "list">>

\* add_record: True only for a JSON answer with code 0
add_record(tok, response) ==
    IF ~Truthy(tok) THEN "returned_false"
    ELSE IF response.status # "json" THEN "returned_false"
    ELSE IF response.code = 0 THEN "returned_true"
    ELSE "returned_false"

\* st.error inside add_record
add_record_message(tok, response) ==
    IF ~Truthy(tok) THEN "none"
    ELSE IF response.status # "json" THEN "network_error"
    ELSE IF response.code = 0 THEN "none"
    ELSE "insert_rejected"

add_record_requests(tok) ==
    IF ~Truthy(tok) THEN <<"token">> ELSE <<"token", "insert">>

\* delete_record: no try around the request or response.json()
delete_record(tok, response) ==
    IF ~Truthy(tok) THEN "returned_false"
    ELSE IF response.status # "json" THEN "raised"
    ELSE IF response.code = 0 THEN "returned_true"
    ELSE "returned_false"

\* delete_record without the "if not token" return
delete_record_requests_unchecked(tok) == <<"token", "delete">>

delete_record_requests(tok) ==
    IF ~Truthy(tok) THEN <<"token">> ELSE <<"token", "delete">>

----------------------------------------------------------------------------
(* The views *)

\* list(pd.DataFrame(existing_records).columns) without "_record_id"
DfColumns(records) ==
    IF records = <<>> THEN {}
    ELSE (UNION {DOMAIN records[i] : i \in 1..Len(records)}) \ {"_record_id"}

\* lines 268-270 and 336-338
price_key(columns) ==
    IF "inquiry_unit_price" \notin columns /\ "unit_price" \in columns
    THEN "unit_price"
    ELSE "inquiry_unit_price"

NOW == Text("2024-01-01 00:00:00")

\* lines 272-279
quotation_payload(supplier, contact, device, price, note, columns) ==
    [k \in {"supplier", "contact", "device_type", price_key(columns), "note",
            "entry_time"} |->
        CASE k = "supplier" -> Text(supplier)
          [] k = "contact" -> Text(contact)
          [] k = "device_type" -> Text(device)
          [] k = "note" -> Text(note)
          [] k = "entry_time" -> NOW
          [] OTHER -> Num(price)]

\* {k: v for k, v in payload.items() if v}
clean_payload(payload) ==
    [k \in {x \in DOMAIN payload : Truthy(payload[x])} |-> payload[k]]

\* lines 340-347; detail_note always starts with the score header
assessment_payload(target_supplier, columns) ==
    [k \in {"supplier", "device_type", "contact", price_key(columns), "note",
            "entry_time"} |->
        CASE k = "supplier" -> Text(target_supplier)
          [] k = "device_type" -> Text(ASSESSMENT_TAG)
          [] k = "contact" -> Text("assessment_system")
          [] k = "note" -> Text("annual_assessment")
          [] k = "entry_time" -> NOW
          [] OTHER -> Num(0)]

IsAssessment(row) ==
    "device_type" \in DOMAIN row /\ row["device_type"] = Text(ASSESSMENT_TAG)

\* df[df["device_type"] != ASSESSMENT_TAG] when the column exists
quotation_rows(records) ==
    IF "device_type" \in DfColumns(records)
    THEN SelectSeq(records, LAMBDA r : ~IsAssessment(r))
    ELSE records

\* df_assess[df_assess["device_type"] == ASSESSMENT_TAG] when the column exists
assessment_rows(records) ==
    IF "device_type" \in DfColumns(records)
    THEN SelectSeq(records, LAMBDA r : IsAssessment(r))
    ELSE records

\* df_temp["supplier"].dropna().unique().tolist()
supplier_list(records) ==
    {records[i]["supplier"].text :
        i \in {j \in 1..Len(records) : "supplier" \in DOMAIN records[j]}}

\* the rows the modelled operators pick from a list: its first and its last
Reachable(rows) == {rows[i] : i \in {1, Len(rows)} \cap (1..Len(rows))}

----------------------------------------------------------------------------
(* State machine *)

\* the rows added to and removed from the remote table so far
Writes == (next_record_id - (page_size + 1)) + Cardinality(removed)

NoLogin == [submitted |-> FALSE, username |-> "", password |-> ""]

\* what the operator may type into the login form
Usernames == {"admin", "guest"}
Passwords == {"123456", "admin"}

Menus == {"query", "entry", "assessment"}

\* what the operator may type into the quotation and assessment forms
Suppliers == {"", "ACME"}
Contacts == {""}
Devices == {"pump"}
Prices == {0, 500}
Notes == {""}

\* the rows the table holds before the session starts
InitialFields(columns) ==
    [k \in {"supplier"} \cup (columns \cap PriceColumns) |->
        IF k = "supplier" THEN Text("ACME") ELSE Num(100)]

InitialTable(n, columns) == [i \in 1..n |-> Item(i, InitialFields(columns))]

\* an empty table, a small one and one that fills a page
InitialSizes == {0, 1, page_size}

Schemas == {OtherColumns \cup {"unit_price"}, OtherColumns \cup {"inquiry_unit_price"}}

Init ==
    /\ authenticated = FALSE
    /\ login_attempt = NoLogin
    /\ pc = "idle"
    /\ menu = "query"
    /\ secrets_feishu \in BOOLEAN
    /\ remote_columns \in Schemas
    /\ \E n \in InitialSizes : remote = InitialTable(n, remote_columns)
    /\ next_record_id = page_size + 1
    /\ token_response = NoTokenResponse
    /\ token = PyNone
    /\ list_response = NotSent
    /\ existing_records = <<>>
    /\ df_columns = {}
    /\ requests = <<>>
    /\ insert_fields = EmptyDict
    /\ delete_target = PyNone
    /\ call_result = "not_called"
    /\ message = "none"
    /\ removed = {}
    /\ last_write = "none"

\* a script run that ends before line 187: its locals hold nothing
no_gateway_call ==
    /\ requests' = <<>>
    /\ call_result' = "not_called"
    /\ token_response' = NoTokenResponse
    /\ token' = PyNone
    /\ list_response' = NotSent
    /\ existing_records' = <<>>
    /\ df_columns' = {}
    /\ insert_fields' = EmptyDict
    /\ delete_target' = PyNone
    /\ UNCHANGED <<remote, remote_columns, next_record_id, secrets_feishu,
                   removed, last_write>>

\* check_login returns True only for an authenticated session (lines 74-75)
check_login_guard == authenticated

\* the credential test without the password comparison
check_login_any_password(username, password) == username \in DOMAIN valid_users

\* the credential test of the login form (line 88)
check_login_ok(username, password) ==
    username \in DOMAIN valid_users /\ valid_users[username] = password

LoginSubmit ==
    \E username \in Usernames, password \in Passwords :
        /\ pc = "idle"
        /\ ~authenticated
        /\ login_attempt' = [submitted |-> TRUE, username |-> username,
                             password |-> password]
        /\ authenticated' = check_login_ok(username, password)
        /\ message' = IF authenticated' THEN "login_success" ELSE "login_error"
        /\ no_gateway_call
        /\ UNCHANGED <<pc, menu>>

\* the logout button (lines 180-182): the run ends before any fetch
Logout ==
    /\ pc = "idle"
    /\ authenticated
    /\ secrets_feishu
    /\ authenticated' = FALSE
    /\ message' = "none"
    /\ no_gateway_call
    /\ UNCHANGED <<pc, menu, login_attempt>>

\* FeishuConnector.__init__ without the configuration: st.error and st.stop
ConnectorStop ==
    /\ pc = "idle"
    /\ authenticated
    /\ ~secrets_feishu
    /\ message' = "config_missing"
    /\ no_gateway_call
    /\ UNCHANGED <<pc, menu, login_attempt, authenticated>>

\* a script run up to line 191: check_login passes, the menu is read, and
\* get_records fetches the table
Render ==
    \E m \in Menus, answer \in TokenResponses :
        LET tok == get_token(answer) IN
        \E response \in (IF "list" \in Range(get_records_requests(tok))
                         THEN ListResponses(remote, page_size)
                         ELSE {NotSent}) :
            /\ pc = "idle"
            /\ check_login_guard
            /\ secrets_feishu
            /\ menu' = m
            /\ token_response' = answer
            /\ token' = tok
            /\ list_response' = response
            /\ existing_records' = get_records(tok, response)
            /\ df_columns' = DfColumns(existing_records')
            /\ requests' = get_records_requests(tok)
            /\ message' = IF m = "query" /\ existing_records' = <<>>
                          THEN "empty_or_failed" ELSE "none"
            /\ insert_fields' = EmptyDict
            /\ delete_target' = PyNone
            /\ call_result' = "not_called"
            /\ pc' = "fetched"
            /\ UNCHANGED <<authenticated, login_attempt, remote, remote_columns,
                           next_record_id, secrets_feishu, removed, last_write>>

\* the script run is over: existing_records and df_columns are locals of it
run_ends ==
    /\ pc' = "idle"
    /\ list_response' = NotSent
    /\ existing_records' = <<>>
    /\ df_columns' = {}

\* the run ends with no button pressed
EndRun ==
    /\ pc = "fetched"
    /\ run_ends
    /\ UNCHANGED <<authenticated, login_attempt, menu, remote, remote_columns,
                   next_record_id, token_response, token, requests, insert_fields, delete_target,
                   call_result, message, secrets_feishu, removed, last_write>>

\* the remote store takes a write only while the model's budget lasts
WithinBudget(response) == response = Accepted => Writes < MaxWrites

\* connector.delete_record(selected_row["_record_id"]) and the success branch
Delete(selected_row) ==
    \E answer \in TokenResponses :
        LET tok == get_token(answer)
            id == selected_row["_record_id"] IN
        \E response \in (IF "delete" \in Range(delete_record_requests(tok))
                         THEN {r \in DeleteResponses(remote, id) : WithinBudget(r)}
                         ELSE {NotSent}) :
            /\ token_response' = answer
            /\ token' = tok
            /\ delete_target' = id
            /\ requests' = delete_record_requests(tok)
            /\ call_result' = delete_record(tok, response)
            /\ remote' = IF response = Accepted THEN RemoteRemove(remote, id)
                                                ELSE remote
            /\ removed' = IF response = Accepted
                           THEN removed \cup {[item |-> it, by |-> "session"] :
                                                 it \in {x \in Range(remote) :
                                                            x.record_id = id}}
                           ELSE removed
            /\ last_write' = IF response = Accepted THEN "session_delete"
                                                    ELSE last_write
            /\ message' = CASE call_result' = "returned_true" -> "delete_success"
                            [] call_result' = "raised" -> "exception"
                            [] OTHER -> "none"
            /\ run_ends
            /\ UNCHANGED <<authenticated, login_attempt, menu, remote_columns,
                           next_record_id, insert_fields, secrets_feishu>>

\* the delete expander of the query view (lines 231-244)
ConfirmDelete ==
    /\ pc = "fetched"
    /\ menu = "query"
    /\ existing_records # <<>>
    /\ \E selected_row \in Reachable(quotation_rows(existing_records)) :
           Delete(selected_row)

\* the delete expander of the assessment history tab (lines 377-387)
ConfirmDeleteAssessment ==
    /\ pc = "fetched"
    /\ menu = "assessment"
    /\ existing_records # <<>>
    /\ \E sel_del \in Reachable(assessment_rows(existing_records)) :
           Delete(sel_del)

\* connector.add_record(data_dict) and the success branch
Insert(data_dict) ==
    \E answer \in TokenResponses :
        LET tok == get_token(answer) IN
        \E response \in (IF "insert" \in Range(add_record_requests(tok))
                         THEN {r \in InsertResponses(remote_columns, data_dict) :
                                   WithinBudget(r)}
                         ELSE {NotSent}) :
            /\ token_response' = answer
            /\ token' = tok
            /\ insert_fields' = IF "insert" \in Range(add_record_requests(tok))
                                THEN data_dict ELSE EmptyDict
            /\ requests' = add_record_requests(tok)
            /\ call_result' = add_record(tok, response)
            /\ remote' = IF response = Accepted
                         THEN RemoteAppend(remote, next_record_id, data_dict)
                         ELSE remote
            /\ next_record_id' = IF response = Accepted THEN next_record_id + 1
                                                        ELSE next_record_id
            /\ last_write' = IF response = Accepted THEN "session_insert"
                                                    ELSE last_write
            /\ message' = IF call_result' = "returned_true" THEN "insert_success"
                          ELSE add_record_message(tok, response)
            /\ run_ends
            /\ UNCHANGED <<authenticated, login_attempt, menu, remote_columns,
                           delete_target, secrets_feishu, removed>>

Warning ==
    /\ message' = "warning"
    /\ run_ends
    /\ requests' = <<>>
    /\ UNCHANGED <<authenticated, login_attempt, menu, remote, remote_columns,
                   next_record_id, token_response, token, insert_fields, delete_target,
                   call_result, secrets_feishu, removed, last_write>>

\* the quotation form submitted (lines 264-286)
SubmitQuotation ==
    /\ pc = "fetched"
    /\ menu = "entry"
    /\ \E supplier \in Suppliers, contact \in Contacts, device \in Devices,
          price \in Prices, note \in Notes :
           IF supplier = "" THEN Warning
           ELSE Insert(clean_payload(quotation_payload(supplier, contact, device,
                                                       price, note, df_columns)))

\* the assessment form submitted (lines 297-352)
SubmitAssessment ==
    /\ pc = "fetched"
    /\ menu = "assessment"
    /\ \E target_supplier \in (IF supplier_list(existing_records) # {}
                               THEN supplier_list(existing_records)
                               ELSE Suppliers) :
           IF target_supplier = "" THEN Warning
           ELSE Insert(assessment_payload(target_supplier, df_columns))

\* another operator removes a row of the shared table
OtherOperatorDelete ==
    /\ Writes < MaxWrites
    /\ \E item \in Reachable(remote) :
           /\ remote' = RemoteRemove(remote, item.record_id)
           /\ removed' = removed \cup {[item |-> item, by |-> "other"]}
    /\ last_write' = "other"
    /\ UNCHANGED <<authenticated, login_attempt, pc, menu, remote_columns,
                   next_record_id, token_response, token, list_response, existing_records,
                   df_columns, requests, insert_fields, delete_target,
                   call_result, message, secrets_feishu>>

\* another operator adds a row to the shared table
OtherOperatorInsert ==
    /\ Writes < MaxWrites
    /\ remote' = RemoteAppend(remote, next_record_id,
                              InitialFields(remote_columns))
    /\ next_record_id' = next_record_id + 1
    /\ last_write' = "other"
    /\ UNCHANGED <<authenticated, login_attempt, pc, menu, remote_columns,
                   token_response, token, list_response, existing_records, df_columns, requests,
                   insert_fields, delete_target, call_result, message,
                   secrets_feishu, removed>>

Next ==
    \/ LoginSubmit
    \/ Logout
    \/ ConnectorStop
    \/ Render
    \/ EndRun
    \/ ConfirmDelete
    \/ ConfirmDeleteAssessment
    \/ SubmitQuotation
    \/ SubmitAssessment
    \/ OtherOperatorDelete
    \/ OtherOperatorInsert

Spec == Init /\ [][Next]_vars

----------------------------------------------------------------------------
(* Properties *)

ListSucceeded(response) == response.status = "json" /\ response.code = 0

ListFailed(response) == response.status # "not_sent" /\ ~ListSucceeded(response)

RowIds(rows) == {rows[i]["_record_id"] : i \in 1..Len(rows)}

FetchStep == pc = "idle" /\ pc' = "fetched"

\* what get_records returns for a table that holds no rows
EmptyTableFetch == get_records(Text("t-1"), ListPage(<<>>, page_size))

\* C1: when the list call answers with a non-zero code or fails, what
\* get_records returns differs from what it returns for an empty table
C1_FetchFailureDistinguishable ==
    (pc = "fetched" /\ ListFailed(list_response))
        => existing_records # EmptyTableFetch

\* C2: a fetch whose list call succeeds returns every record of the remote
\* table, whatever its size
C2_FetchAllReturnsEveryRecord ==
    [][(FetchStep /\ ListSucceeded(list_response'))
          => /\ Len(existing_records') = Len(remote)
             /\ RowIds(existing_records') = RemoteIds(remote)]_vars

DeleteStep == pc = "fetched" /\ pc' = "idle" /\ delete_target' # PyNone

\* C3: a delete of an identifier the remote table does not hold ends in a
\* reported failure: delete_record returns False, nothing is raised, no
\* success is shown and the table is unchanged
C3_DeleteMissingIdReportsFailure ==
    [][(DeleteStep /\ delete_target' \notin RemoteIds(remote))
          => /\ call_result' = "returned_false"
             /\ message' # "delete_success"
             /\ remote' = remote]_vars

\* the fetch that follows a successful insert with no write in between
FetchAfterInsert ==
    /\ FetchStep
    /\ call_result = "returned_true"
    /\ last_write = "session_insert"
    /\ ListSucceeded(list_response')

\* the rows of a fetch that carry the identifier id
RowsWithId(rows, id) == {i \in 1..Len(rows) : rows[i]["_record_id"] = id}

\* C4: the fetch after a successful insert returns the previous records and
\* exactly one new record, which holds every truthy entry of the input
C4_InsertThenFetchRoundTrip ==
    [][FetchAfterInsert
          => LET new == remote[Len(remote)]
                 found == RowsWithId(existing_records', new.record_id) IN
             /\ RowIds(existing_records') = RemoteIds(remote)
             /\ Cardinality(found) = 1
             /\ \A i \in found : \A k \in DOMAIN insert_fields :
                    Truthy(insert_fields[k])
                        => /\ k \in DOMAIN existing_records'[i]
                           /\ existing_records'[i][k] = insert_fields[k]]_vars

\* the rows this session inserted, saw in a fetch and then deleted
DeletedBySession ==
    {r.item : r \in {x \in removed : /\ x.by = "session"
                                     /\ "entry_time" \in DOMAIN x.item.fields}}

\* C5: once the session has deleted a record it inserted, every later fetch
\* returns no row with that identifier and returns all other records unchanged
C5_DeleteThenFetchRoundTrip ==
    [][(FetchStep /\ DeletedBySession # {})
          => /\ \A it \in DeletedBySession :
                    it.record_id \notin RowIds(existing_records')
             /\ \A i \in 1..Len(remote) :
                    \E j \in 1..Len(existing_records') :
                        /\ existing_records'[j]["_record_id"] = remote[i].record_id
                        /\ \A k \in DOMAIN remote[i].fields :
                               /\ k \in DOMAIN existing_records'[j]
                               /\ existing_records'[j][k] = remote[i].fields[k]]_vars

\* the price column an insert has to write, given the remote columns
RemotePriceKey ==
    IF "unit_price" \in remote_columns /\ "inquiry_unit_price" \notin remote_columns
    THEN "unit_price"
    ELSE "inquiry_unit_price"

\* C6: every insert request writes the price under the column the remote
\* table has: "unit_price" for the legacy schema, else "inquiry_unit_price"
C6_PriceKeyFollowsRemoteSchema ==
    \A k \in DOMAIN insert_fields : k \in PriceColumns => k = RemotePriceKey

\* C7: no insert request carries an empty-string or zero-valued field
C7_InsertFieldsStripped ==
    \A k \in DOMAIN insert_fields : Truthy(insert_fields[k])

TokenFailed(response) ==
    response.status \in {"network_error", "not_json"}
        \/ (response.status = "json" /\ ~response.has_token)

\* C8: when the token endpoint gives no token, get_token yields None and the
\* calling fetch, insert or delete sends nothing further, reports no success
\* and leaves the remote table unchanged
C8_NoTokenNoRequest ==
    [][(pc' # pc /\ requests' # <<>> /\ TokenFailed(token_response'))
          => /\ token' = PyNone
             /\ requests' = <<"token">>
             /\ call_result' \in {"not_called", "returned_false"}
             /\ existing_records' = <<>>
             /\ remote' = remote]_vars

C8_Witness ==
    /\ TokenFailed(token_response)
    /\ requests = <<"token">>
    /\ call_result = "returned_false"
    /\ delete_target # PyNone
    /\ remote # <<>>

\* C9: after a successful list response, get_records holds one row per item
\* of the response, in the response's order, the i-th row carrying the i-th
\* item's identifier under "_record_id" and that item's fields unchanged
C9_RowsMirrorItems ==
    ListSucceeded(list_response)
        => /\ Len(existing_records) = Len(list_response.items)
           /\ \A i \in 1..Len(list_response.items) :
                  LET row == existing_records[i]
                      item == list_response.items[i] IN
                  /\ "_record_id" \in DOMAIN row
                  /\ row["_record_id"] = item.record_id
                  /\ DOMAIN row \ {"_record_id"} = DOMAIN item.fields
                  /\ \A k \in DOMAIN item.fields : row[k] = item.fields[k]

C9_Witness ==
    /\ pc = "fetched"
    /\ ListSucceeded(list_response)
    /\ Len(list_response.items) >= 2
    /\ list_response.items[1].fields # list_response.items[Len(list_response.items)].fields

\* C10: a gateway request is sent only by a step of an authenticated session,
\* the flag turns true only by a login whose username is in the allow-list
\* with exactly its password, and an unauthenticated session has sent nothing
C10_LoginGate ==
    [][/\ (pc' # pc /\ requests' # <<>>) => (authenticated /\ authenticated')
       /\ (~authenticated /\ authenticated')
             => /\ login_attempt'.submitted
                /\ login_attempt'.username \in DOMAIN valid_users
                /\ valid_users[login_attempt'.username] = login_attempt'.password
       /\ ~authenticated' => (requests' = <<>> /\ pc' = "idle")]_vars

C10_Witness ==
    /\ authenticated
    /\ login_attempt.submitted
    /\ login_attempt.username \in DOMAIN valid_users
    /\ pc = "fetched"
    /\ "list" \in Range(requests)

====
